---- MODULE Spec2Model ----
(***************************************************************************)
(* Model of agent/language_teacher_agent.py: the Cerebras completion       *)
(* client (CerebrasLLM.generate), the prompt builder                       *)
(* (build_system_prompt), the session entrypoint and the turn handler      *)
(* (CerebrasHandler.chat).                                                 *)
(*                                                                         *)
(* Text is a sequence of tokens, so that concatenation (\o) and substring  *)
(* containment are computed and not assumed.  A Python / JSON value is a   *)
(* record [t |-> type tag, v |-> payload].                                 *)
(***************************************************************************)
EXTENDS Integers, Sequences, FiniteSets, TLC

VARIABLES
    \* build_system_prompt under test: arguments and the values it returned
    p_difficulty, p_topic, p_returned,
    \* CerebrasLLM.generate under test: self.api_key, messages, position,
    \* the request sent, the provider's outcome, the value returned, the log
    g_api_key, g_messages, g_pc, g_request, g_outcome, g_returned, g_log,
    \* the session: entrypoint's position and locals, the environment's
    \* CEREBRAS_API_KEY, the first participant's metadata
    pc, env_api_key, participant_metadata, difficulty, topic, cerebras_api_key,
    initial_ctx,
    \* assistant._llm, whether assistant.start ran, the greetings said
    assistant_llm, started, greetings,
    \* CerebrasHandler.messages, the chat invocations suspended at the await,
    \* the chunks chat returned, the completion requests sent
    messages, pending, chunks, http_requests,
    \* chat invocations so far and the last one's input; the room has closed
    calls, last_call, closed

\* ------------------------------------------------------------ bounds
\* longest topic text, in tokens
MaxTopicLen == 2
\* calls of build_system_prompt made with one pair of arguments
MaxPromptCalls == 2
\* most choices a provider response carries
MaxChoices == 2
\* chat invocations the pipeline makes in one session
MaxUtterances == 2

\* ------------------------------------------------------------ values
PyNone == [t |-> "None", v |-> <<>>]

PyStr(s) == [t |-> "str", v |-> s]

PyNum(n) == [t |-> "int", v |-> n]

PyList(s) == [t |-> "list", v |-> s]

PyDict(f) == [t |-> "dict", v |-> f]

\* the exception an expression raised, as a value that propagates
Raised(e) == [t |-> "raise", v |-> e]

IsRaised(x) == x.t = "raise"

\* == of Python on these values
PyEq(a, b) == a.t = b.t /\ a.v = b.v

\* bool(x) of Python
Truthy(x) ==
    CASE x.t = "None" -> FALSE
      [] x.t = "str" -> Len(x.v) > 0
      [] x.t = "int" -> x.v # 0
      [] x.t = "list" -> Len(x.v) > 0
      [] x.t = "dict" -> DOMAIN x.v # {}
      [] OTHER -> TRUE

\* s occurs in text as a contiguous run of tokens (Python: s in text)
Contains(text, s) ==
    \E i \in 0..(Len(text) - Len(s)) :
        \A k \in 1..Len(s) : text[i + k] = s[k]

\* ------------------------------------------------------------ prompt builder
BaseInstruction ==
    <<"You are a patient and encouraging language teacher. [...] Keep responses conversational, concise, and encouraging.">>

BeginnerClause ==
    <<"Use simple vocabulary and short sentences. Speak slowly and clearly.">>

IntermediateClause ==
    <<"Use moderately complex language. Introduce new vocabulary in context.">>

AdvancedClause ==
    <<"Use natural, complex language. Discuss nuanced topics.">>

TopicLabel == <<"Current topic: ">>

Blank == <<"\n\n">>

\* the if / elif / else chain with the elif written as a second if
DifficultyClauseIfIf(level) ==
    (IF PyEq(level, PyStr(<<"beginner">>)) THEN Blank \o BeginnerClause ELSE <<>>)
    \o (IF PyEq(level, PyStr(<<"intermediate">>))
        THEN Blank \o IntermediateClause
        ELSE Blank \o AdvancedClause)

\* the chain with beginner as the final else (the default of the signature)
DifficultyClauseDefaultBeginner(level) ==
    IF PyEq(level, PyStr(<<"advanced">>))
    THEN Blank \o AdvancedClause
    ELSE IF PyEq(level, PyStr(<<"intermediate">>))
         THEN Blank \o IntermediateClause
         ELSE Blank \o BeginnerClause

DifficultyClause(level) ==
    IF PyEq(level, PyStr(<<"beginner">>))
    THEN Blank \o BeginnerClause
    ELSE IF PyEq(level, PyStr(<<"intermediate">>))
         THEN Blank \o IntermediateClause
         ELSE Blank \o AdvancedClause

\* f"{topic}": str() of the value
Format(x) ==
    CASE x.t = "str" -> x.v
      [] x.t = "None" -> <<"None">>
      [] OTHER -> <<"<repr>">>

TopicClause(subject) ==
    IF Truthy(subject) THEN Blank \o TopicLabel \o Format(subject) ELSE <<>>

build_system_prompt(level, subject) ==
    BaseInstruction \o DifficultyClause(level) \o TopicClause(subject)

\* ------------------------------------------------------------ completion client
Model == "llama3.3-70b"

DefaultApiUrl == "https://api.cerebras.ai/v1"

Temperature == "0.7"

MaxTokens == 500

TimeoutSeconds == 30

Apology == PyStr(<<"I'm sorry, I couldn't generate a response.">>)

ConnectionTrouble == PyStr(<<"I'm having trouble connecting. Please try again.">>)

Dict1(k, x) == PyDict([key \in {k} |-> x])

\* dict.get(k): None for a missing key; a value that is no dict has no .get
DictGet(d, k) ==
    IF d.t = "dict"
    THEN IF k \in DOMAIN d.v THEN d.v[k] ELSE PyNone
    ELSE Raised("AttributeError")

\* x[k] for a string key
SubscriptKey(x, k) ==
    CASE IsRaised(x) -> x
      [] x.t = "dict" -> IF k \in DOMAIN x.v THEN x.v[k] ELSE Raised("KeyError")
      [] OTHER -> Raised("TypeError")

\* x[i] for an index i >= 0
SubscriptIndex(x, i) ==
    CASE IsRaised(x) -> x
      [] x.t = "list" -> IF i < Len(x.v) THEN x.v[i + 1] ELSE Raised("IndexError")
      [] x.t = "str" -> IF i < Len(x.v) THEN PyStr(<<x.v[i + 1]>>) ELSE Raised("IndexError")
      [] x.t = "dict" -> Raised("KeyError")
      [] OTHER -> Raised("TypeError")

\* len(x)
PyLen(x) ==
    CASE x.t = "list" -> PyNum(Len(x.v))
      [] x.t = "str" -> PyNum(Len(x.v))
      [] x.t = "dict" -> PyNum(Cardinality(DOMAIN x.v))
      [] OTHER -> Raised("TypeError")

\* requests.post: the transport fails, the 30 s timeout passes, or a response arrives
PostResult(outcome) ==
    IF outcome.kind = "response" THEN PyNone ELSE Raised(outcome.kind)

\* response.raise_for_status(): HTTPError for 4xx and 5xx, nothing otherwise
RaiseForStatus(status) ==
    IF 400 <= status /\ status < 600 THEN Raised("HTTPError") ELSE PyNone

\* response.json()
ResponseJson(body) ==
    IF body.parses THEN body.data ELSE Raised("JSONDecodeError")

\* lines 71-74 with the guard on choices dropped
ExtractContentUnguarded(data) ==
    SubscriptKey(SubscriptKey(SubscriptIndex(SubscriptKey(data, "choices"), 0),
                              "message"), "content")

\* lines 71-74 reading the last choice and not the first
ExtractContentLast(data) ==
    LET choices == DictGet(data, "choices") IN
    IF IsRaised(choices) THEN choices
    ELSE IF Truthy(choices)
         THEN LET n == PyLen(choices) IN
              IF IsRaised(n) THEN n
              ELSE IF n.v > 0
                   THEN SubscriptKey(SubscriptKey(
                            SubscriptIndex(SubscriptKey(data, "choices"), n.v - 1),
                            "message"), "content")
                   ELSE Apology
         ELSE Apology

\* lines 71-74: the first choice's message content, or the apology
ExtractContent(data) ==
    LET choices == DictGet(data, "choices") IN
    IF IsRaised(choices) THEN choices
    ELSE IF Truthy(choices)
         THEN LET n == PyLen(choices) IN
              IF IsRaised(n) THEN n
              ELSE IF n.v > 0
                   THEN SubscriptKey(SubscriptKey(
                            SubscriptIndex(SubscriptKey(data, "choices"), 0),
                            "message"), "content")
                   ELSE Apology
         ELSE Apology

\* the try block, lines 48-74: the value returned or the exception raised
GenerateTry(outcome) ==
    LET posted == PostResult(outcome) IN
    IF IsRaised(posted) THEN posted
    ELSE LET checked == RaiseForStatus(outcome.status) IN
         IF IsRaised(checked) THEN checked
         ELSE LET data == ResponseJson(outcome.body) IN
              IF IsRaised(data) THEN data ELSE ExtractContent(data)

\* generate: except Exception turns every exception into the fallback string
generate(outcome) ==
    LET r == GenerateTry(outcome) IN
    IF IsRaised(r) THEN ConnectionTrouble ELSE r

\* the request of lines 48-66
Request(api_key, history) ==
    [url |-> <<DefaultApiUrl, "/chat/completions">>,
     authorization |-> <<"Bearer ">> \o Format(api_key),
     model |-> Model,
     messages |-> history,
     temperature |-> Temperature,
     max_tokens |-> MaxTokens,
     timeout |-> TimeoutSeconds]

\* ------------------------------------------------------------ inputs
SeqsUpTo(S, n) == UNION {[1..k -> S] : k \in 0..n}

EmptyDict == PyDict([key \in {} |-> PyNone])

Message(role, content) == [role |-> role, content |-> content]

\* difficulty values: the three levels, and values that are none of them
Difficulties ==
    {PyStr(<<"beginner">>), PyStr(<<"intermediate">>), PyStr(<<"advanced">>),
     PyStr(<<"expert">>), PyStr(<<"Beginner">>), PyNone}

Levels == {PyStr(<<"beginner">>), PyStr(<<"intermediate">>), PyStr(<<"advanced">>)}

\* tokens a topic is made of; a topic is free text, so it may quote a clause
TopicTokens == {"travel", "food", AdvancedClause[1], BeginnerClause[1]}

Topics == {PyNone} \cup {PyStr(s) : s \in SeqsUpTo(TopicTokens, MaxTopicLen)}

ApiKeys == {PyNone, PyStr(<<>>), PyStr(<<"csk-key">>)}

Contents == {<<"Bonjour">>, <<"Salut">>}

GoodChoice(c) == Dict1("message", Dict1("content", PyStr(c)))

\* choices from which line 72 cannot read ["message"]["content"]
BadChoices ==
    {EmptyDict, Dict1("message", PyNone), Dict1("message", EmptyDict),
     PyNone, PyStr(<<"x">>)}

NullContentChoice == Dict1("message", Dict1("content", PyNone))

Choices == {GoodChoice(c) : c \in Contents} \cup BadChoices \cup {NullContentChoice}

ChoiceLists == SeqsUpTo(Choices, MaxChoices)

\* values of the key "choices" that are no list
OddChoices ==
    {PyNone, PyNum(0), PyNum(5), PyStr(<<>>), PyStr(<<"a", "b">>), EmptyDict,
     Dict1("0", GoodChoice(<<"Bonjour">>))}

\* what response.json() can give
Datas ==
    {PyNone, PyNum(5), PyStr(<<"ok">>), PyList(<<>>),
     PyList(<<GoodChoice(<<"Bonjour">>)>>), EmptyDict,
     Dict1("error", PyStr(<<"overloaded">>))}
    \cup {Dict1("choices", PyList(l)) : l \in ChoiceLists}
    \cup {Dict1("choices", x) : x \in OddChoices}

Unparseable == [parses |-> FALSE, data |-> PyNone]

Bodies == {Unparseable} \cup {[parses |-> TRUE, data |-> d] : d \in Datas}

Statuses == {200, 201, 304, 404, 500}

Outcomes ==
    {[kind |-> k, status |-> 0, body |-> Unparseable] :
        k \in {"ConnectionError", "Timeout"}}
    \cup {[kind |-> "response", status |-> st, body |-> b] :
            st \in Statuses, b \in Bodies}

SystemMessage == Message("system", PyStr(build_system_prompt(PyStr(<<"beginner">>), PyNone)))

Histories ==
    {<<SystemMessage, Message("user", PyStr(<<"Hello">>))>>,
     <<SystemMessage, Message("user", PyStr(<<"Hello">>)),
       Message("assistant", PyStr(<<"Bonjour">>)),
       Message("user", PyStr(<<"Merci">>))>>}

\* ------------------------------------------------------------ build_system_prompt, called
prompt_vars == <<p_difficulty, p_topic, p_returned>>

generate_vars == <<g_api_key, g_messages, g_pc, g_request, g_outcome, g_returned, g_log>>

session_vars ==
    <<pc, env_api_key, participant_metadata, difficulty, topic, cerebras_api_key,
      initial_ctx, assistant_llm, started, greetings, messages, pending, chunks,
      http_requests, calls, last_call, closed>>

vars == <<prompt_vars, generate_vars, session_vars>>

PromptIdle ==
    /\ p_difficulty = PyNone
    /\ p_topic = PyNone
    /\ p_returned = <<>>

GenerateIdle ==
    /\ g_api_key = PyNone
    /\ g_messages = <<>>
    /\ g_pc = "idle"
    /\ g_request = <<>>
    /\ g_outcome = <<>>
    /\ g_returned = <<>>
    /\ g_log = <<>>

BuildPromptCall ==
    /\ Len(p_returned) < MaxPromptCalls
    /\ p_returned' = Append(p_returned, build_system_prompt(p_difficulty, p_topic))
    /\ UNCHANGED <<p_difficulty, p_topic>>
    /\ UNCHANGED <<generate_vars, session_vars>>

\* ------------------------------------------------------------ generate, called
\* lines 48-66: the request goes out and the provider answers, or does not
GeneratePost ==
    /\ g_pc = "start"
    /\ g_request' = Append(g_request, Request(g_api_key, g_messages))
    /\ \E o \in Outcomes : g_outcome' = Append(g_outcome, o)
    /\ g_pc' = "posted"
    /\ UNCHANGED <<g_api_key, g_messages, g_returned, g_log>>
    /\ UNCHANGED <<prompt_vars, session_vars>>

\* lines 68-78: the value handed to the caller, and the error logged on failure
GenerateReturn ==
    /\ g_pc = "posted"
    /\ g_returned' = Append(g_returned, generate(g_outcome[1]))
    /\ g_log' = IF IsRaised(GenerateTry(g_outcome[1]))
                THEN Append(g_log, <<"Cerebras API error", GenerateTry(g_outcome[1]).v>>)
                ELSE g_log
    /\ g_pc' = "returned"
    /\ UNCHANGED <<g_api_key, g_messages, g_request, g_outcome>>
    /\ UNCHANGED <<prompt_vars, session_vars>>

\* ------------------------------------------------------------ session
NoCall == [id |-> 0, user_message |-> PyNone]

SessionIdle ==
    /\ pc = "idle"
    /\ env_api_key = PyNone
    /\ participant_metadata = PyNone
    /\ difficulty = PyNone
    /\ topic = PyNone
    /\ cerebras_api_key = PyNone
    /\ initial_ctx = <<>>
    /\ assistant_llm = "none"
    /\ started = FALSE
    /\ greetings = 0
    /\ messages = <<>>
    /\ pending = {}
    /\ chunks = <<>>
    /\ http_requests = <<>>
    /\ calls = 0
    /\ last_call = NoCall
    /\ closed = FALSE

Dict2(k1, x1, k2, x2) == PyDict([key \in {k1, k2} |-> IF key = k1 THEN x1 ELSE x2])

\* json.loads on the metadata texts a participant may carry
json_loads(text) ==
    CASE text = <<"null">> -> PyNone
      [] text = <<"[]">> -> PyList(<<>>)
      [] text = <<"{}">> -> EmptyDict
      [] text = <<"{\"difficulty\": \"expert\"}">> ->
            Dict1("difficulty", PyStr(<<"expert">>))
      [] text = <<"{\"difficulty\": null}">> ->
            Dict1("difficulty", PyNone)
      [] text = <<"{\"topic\": \"food\"}">> ->
            Dict1("topic", PyStr(<<"food">>))
      [] text = <<"{\"difficulty\": \"intermediate\", \"topic\": \"travel\"}">> ->
            Dict2("difficulty", PyStr(<<"intermediate">>), "topic", PyStr(<<"travel">>))
      [] OTHER -> Raised("JSONDecodeError")

\* participant.metadata: absent, empty, or a text
Metadatas ==
    {PyNone, PyStr(<<>>)}
    \cup {PyStr(<<x>>) :
            x \in {"not json", "null", "[]", "{}",
                   "{\"difficulty\": \"expert\"}", "{\"difficulty\": null}",
                   "{\"topic\": \"food\"}",
                   "{\"difficulty\": \"intermediate\", \"topic\": \"travel\"}"}}

\* dict.get(k, default)
DictGetDefault(d, k, default) ==
    IF d.t = "dict"
    THEN IF k \in DOMAIN d.v THEN d.v[k] ELSE default
    ELSE Raised("AttributeError")

\* lines 119-127 with `except json.JSONDecodeError:` for the bare except: the
\* AttributeError of a parsed value that is no dict escapes (first component)
ReadMetadataNarrowExcept(metadata, d0, t0) ==
    IF ~Truthy(metadata) THEN <<d0, t0>>
    ELSE LET parsed == json_loads(metadata.v) IN
         IF IsRaised(parsed) THEN <<d0, t0>>
         ELSE LET d == DictGetDefault(parsed, "difficulty", PyStr(<<"beginner">>)) IN
              IF IsRaised(d) THEN <<d, t0>>
              ELSE LET t == DictGet(parsed, "topic") IN
                   IF IsRaised(t) THEN <<t, t0>> ELSE <<d, t>>

\* lines 119-127: the (difficulty, topic) after reading the metadata; the
\* bare except leaves whatever was assigned before the exception
ReadMetadata(metadata, d0, t0) ==
    IF ~Truthy(metadata) THEN <<d0, t0>>
    ELSE LET parsed == json_loads(metadata.v) IN
         IF IsRaised(parsed) THEN <<d0, t0>>
         ELSE LET d == DictGetDefault(parsed, "difficulty", PyStr(<<"beginner">>)) IN
              IF IsRaised(d) THEN <<d0, t0>>
              ELSE LET t == DictGet(parsed, "topic") IN
                   IF IsRaised(t) THEN <<d, t0>> ELSE <<d, t>>

\* lines 108-115: defaults set, room connected
Connect ==
    /\ pc = "start"
    /\ pc' = "connected"
    /\ UNCHANGED <<env_api_key, participant_metadata, difficulty, topic,
                   cerebras_api_key, initial_ctx, assistant_llm, started, greetings,
                   messages, pending, chunks, http_requests, calls, last_call, closed>>
    /\ UNCHANGED <<prompt_vars, generate_vars>>

\* lines 118-128: the first participant joins; its metadata is read
WaitForParticipant ==
    /\ pc = "connected"
    /\ \E m \in Metadatas :
        /\ participant_metadata' = m
        /\ difficulty' = ReadMetadata(m, difficulty, topic)[1]
        /\ topic' = ReadMetadata(m, difficulty, topic)[2]
        \* an exception that left the try block would end entrypoint here
        /\ pc' = IF IsRaised(ReadMetadata(m, difficulty, topic)[1])
                 THEN "crashed" ELSE "joined"
    /\ UNCHANGED <<env_api_key, cerebras_api_key, initial_ctx, assistant_llm, started,
                   greetings, messages, pending, chunks, http_requests, calls,
                   last_call, closed>>
    /\ UNCHANGED <<prompt_vars, generate_vars>>

\* lines 131-132: os.getenv gives None for an absent variable; nothing checks it
InitCerebras ==
    /\ pc = "joined"
    /\ cerebras_api_key' = env_api_key
    /\ pc' = "llm"
    /\ UNCHANGED <<env_api_key, participant_metadata, difficulty, topic, initial_ctx,
                   assistant_llm, started, greetings, messages, pending, chunks,
                   http_requests, calls, last_call, closed>>
    /\ UNCHANGED <<prompt_vars, generate_vars>>

\* lines 136-148: the initial chat context and the assistant with the default LLM
CreateAssistant ==
    /\ pc = "llm"
    /\ initial_ctx' = <<Message("system", PyStr(build_system_prompt(difficulty, topic)))>>
    /\ assistant_llm' = "openai.LLM"
    /\ pc' = "assistant"
    /\ UNCHANGED <<env_api_key, participant_metadata, difficulty, topic,
                   cerebras_api_key, started, greetings, messages, pending, chunks,
                   http_requests, calls, last_call, closed>>
    /\ UNCHANGED <<prompt_vars, generate_vars>>

\* lines 151-186: CerebrasHandler.__init__ seeds the log; assistant._llm is replaced
OverrideHandler ==
    /\ pc = "assistant"
    /\ messages' = <<Message("system", PyStr(build_system_prompt(difficulty, topic)))>>
    /\ assistant_llm' = "CerebrasHandler"
    /\ pc' = "overridden"
    /\ UNCHANGED <<env_api_key, participant_metadata, difficulty, topic,
                   cerebras_api_key, initial_ctx, started, greetings, pending, chunks,
                   http_requests, calls, last_call, closed>>
    /\ UNCHANGED <<prompt_vars, generate_vars>>

\* line 189 placed before the override of line 186
StartAssistantBeforeOverride ==
    /\ pc = "assistant"
    /\ ~started
    /\ started' = TRUE
    /\ UNCHANGED <<pc, env_api_key, participant_metadata, difficulty, topic,
                   cerebras_api_key, initial_ctx, assistant_llm, greetings, messages,
                   pending, chunks, http_requests, calls, last_call, closed>>
    /\ UNCHANGED <<prompt_vars, generate_vars>>

\* line 189
StartAssistant ==
    /\ pc = "overridden"
    /\ started' = TRUE
    /\ pc' = "started"
    /\ UNCHANGED <<env_api_key, participant_metadata, difficulty, topic,
                   cerebras_api_key, initial_ctx, assistant_llm, greetings, messages,
                   pending, chunks, http_requests, calls, last_call, closed>>
    /\ UNCHANGED <<prompt_vars, generate_vars>>

\* lines 192-198
SayGreeting ==
    /\ pc = "started"
    /\ greetings' = greetings + 1
    /\ pc' = "ready"
    /\ UNCHANGED <<env_api_key, participant_metadata, difficulty, topic,
                   cerebras_api_key, initial_ctx, assistant_llm, started, messages,
                   pending, chunks, http_requests, calls, last_call, closed>>
    /\ UNCHANGED <<prompt_vars, generate_vars>>

\* ------------------------------------------------------------ turn handler
Utterances == {<<>>, <<"Hello">>, <<"Merci">>}

\* the chat contexts the pipeline may pass: empty, the initial context alone,
\* the context ending with a transcribed utterance, or ending with a reply
ChatContexts ==
    {<<>>, initial_ctx}
    \cup {initial_ctx \o <<Message("user", PyStr(u))>> : u \in Utterances}
    \cup {initial_ctx \o <<Message("user", PyStr(<<"Hello">>)),
                           Message("assistant", PyStr(<<"Bonjour">>))>>}

\* line 160
UserMessage(chat_ctx) ==
    IF Len(chat_ctx) > 0 THEN chat_ctx[Len(chat_ctx)].content ELSE PyStr(<<>>)

\* line 162 with the test dropped
AcceptsAlways(user_message) == TRUE

\* line 162: if user_message
Accepts(user_message) == Truthy(user_message)

\* generate is declared async def (line 40), so calling it in the worker
\* thread only creates a coroutine object; to_thread hands that object back
\* and nothing awaits it: the body of generate never runs
PyCoroutine == [t |-> "coroutine", v |-> <<"CerebrasLLM.generate">>]

ToThreadGenerate(history) == PyCoroutine

\* lines 158-169: chat up to the await
ChatCall ==
    /\ started
    /\ assistant_llm = "CerebrasHandler"
    /\ ~closed
    /\ calls < MaxUtterances
    /\ \E chat_ctx \in ChatContexts :
        LET user_message == UserMessage(chat_ctx) IN
        /\ last_call' = [id |-> calls + 1, user_message |-> user_message]
        /\ IF Accepts(user_message)
           THEN /\ messages' = Append(messages, Message("user", user_message))
                /\ pending' = pending \cup
                       {[id |-> calls + 1, user_message |-> user_message,
                         at |-> Len(messages)]}
           ELSE UNCHANGED <<messages, pending>>
    /\ calls' = calls + 1
    /\ UNCHANGED <<pc, env_api_key, participant_metadata, difficulty, topic,
                   cerebras_api_key, initial_ctx, assistant_llm, started, greetings,
                   chunks, http_requests, closed>>
    /\ UNCHANGED <<prompt_vars, generate_vars>>

\* lines 166-183 with the chunk's content read from the end of the log
\* before the reply is appended
ChatResumeChunkFromLog ==
    /\ \E inv \in pending :
        LET response == ToThreadGenerate(messages) IN
        /\ chunks' = Append(chunks, [id |-> inv.id, role |-> "assistant",
                                     content |-> messages[Len(messages)].content])
        /\ messages' = Append(messages, Message("assistant", response))
        /\ pending' = pending \ {inv}
    /\ UNCHANGED <<pc, env_api_key, participant_metadata, difficulty, topic,
                   cerebras_api_key, initial_ctx, assistant_llm, started, greetings,
                   http_requests, calls, last_call, closed>>
    /\ UNCHANGED <<prompt_vars, generate_vars>>

\* lines 166-183: the await returns, the reply is appended, the chunk returned
ChatResume ==
    /\ \E inv \in pending :
        LET response == ToThreadGenerate(messages) IN
        /\ messages' = Append(messages, Message("assistant", response))
        /\ chunks' = Append(chunks, [id |-> inv.id, role |-> "assistant",
                                     content |-> response])
        /\ pending' = pending \ {inv}
    /\ UNCHANGED <<pc, env_api_key, participant_metadata, difficulty, topic,
                   cerebras_api_key, initial_ctx, assistant_llm, started, greetings,
                   http_requests, calls, last_call, closed>>
    /\ UNCHANGED <<prompt_vars, generate_vars>>

\* the room closes; no line of the program observes it
SessionEnd ==
    /\ pc = "ready"
    /\ ~closed
    /\ closed' = TRUE
    /\ UNCHANGED <<pc, env_api_key, participant_metadata, difficulty, topic,
                   cerebras_api_key, initial_ctx, assistant_llm, started, greetings,
                   messages, pending, chunks, http_requests, calls, last_call>>
    /\ UNCHANGED <<prompt_vars, generate_vars>>

\* ------------------------------------------------------------ specifications
Init ==
    /\ PromptIdle
    /\ GenerateIdle
    /\ pc = "start"
    /\ env_api_key \in ApiKeys
    /\ participant_metadata = PyNone
    /\ difficulty = PyStr(<<"beginner">>)
    /\ topic = PyNone
    /\ cerebras_api_key = PyNone
    /\ initial_ctx = <<>>
    /\ assistant_llm = "none"
    /\ started = FALSE
    /\ greetings = 0
    /\ messages = <<>>
    /\ pending = {}
    /\ chunks = <<>>
    /\ http_requests = <<>>
    /\ calls = 0
    /\ last_call = NoCall
    /\ closed = FALSE

Next ==
    \/ Connect
    \/ WaitForParticipant
    \/ InitCerebras
    \/ CreateAssistant
    \/ OverrideHandler
    \/ StartAssistant
    \/ SayGreeting
    \/ ChatCall
    \/ ChatResume
    \/ SessionEnd

Spec == Init /\ [][Next]_vars

\* the worker thread returns as soon as generate's coroutine object exists and
\* the event loop then resumes the awaiting chat: a suspended chat is resumed
SpecLive == Init /\ [][Next]_vars /\ WF_vars(ChatResume)

InitPrompt ==
    /\ p_difficulty \in Difficulties
    /\ p_topic \in Topics
    /\ p_returned = <<>>
    /\ GenerateIdle
    /\ SessionIdle

NextPrompt == BuildPromptCall

SpecPrompt == InitPrompt /\ [][NextPrompt]_vars

InitGenerate ==
    /\ g_api_key \in ApiKeys
    /\ g_messages \in Histories
    /\ g_pc = "start"
    /\ g_request = <<>>
    /\ g_outcome = <<>>
    /\ g_returned = <<>>
    /\ g_log = <<>>
    /\ PromptIdle
    /\ SessionIdle

NextGenerate == GeneratePost \/ GenerateReturn

SpecGenerate == InitGenerate /\ [][NextGenerate]_vars

\* ------------------------------------------------------------ properties
\* system first, then user, assistant, user, assistant, ...
Alternates(log) ==
    /\ Len(log) > 0
    /\ log[1].role = "system"
    /\ \A i \in 2..Len(log) :
        log[i].role = (IF i % 2 = 0 THEN "user" ELSE "assistant")

\* C1: whenever no completion is in flight, the log is one system message
\* followed by strictly alternating user and assistant messages.
C1_LogAlternatesWhenIdle ==
    (pending = {} /\ assistant_llm = "CerebrasHandler") => Alternates(messages)

\* C2: at most one chat invocation is between its user-append and its
\* assistant-append; a second utterance is never appended while a completion
\* is in flight.
C2_OneInvocationInFlight == Cardinality(pending) <= 1

\* every value generate can hand to its caller
GenerateReturns == {generate(o) : o \in Outcomes}

\* C3: a non-empty utterance handled from Seeded, with no other invocation
\* in between, leaves the log two longer: the first n elements unchanged,
\* then the user message with the text, then an assistant message whose
\* content is what generate returned.
C3_TurnAppendsUserThenCompletion ==
    [][\A inv \in pending :
          (pending = {inv} /\ pending' = {} /\ Len(messages) = inv.at + 1)
          => /\ Len(messages') = inv.at + 2
             /\ SubSeq(messages', 1, inv.at) = SubSeq(messages, 1, inv.at)
             /\ messages'[inv.at + 1] = Message("user", inv.user_message)
             /\ messages'[inv.at + 2].role = "assistant"
             /\ messages'[inv.at + 2].content \in GenerateReturns]_vars

Is2xx(status) == 200 <= status /\ status < 300

\* the first choice of a parsed body, when the body is an object whose
\* "choices" is a non-empty list
HasChoices(body) ==
    /\ body.parses
    /\ body.data.t = "dict"
    /\ "choices" \in DOMAIN body.data.v
    /\ body.data.v["choices"].t = "list"
    /\ Len(body.data.v["choices"].v) > 0

FirstChoice(body) == body.data.v["choices"].v[1]

\* the choice is an object with a message object with a content key
HasMessageContent(choice) ==
    /\ choice.t = "dict"
    /\ "message" \in DOMAIN choice.v
    /\ choice.v["message"].t = "dict"
    /\ "content" \in DOMAIN choice.v["message"].v

\* a malformed payload: unparseable, not an object, or a first choice
\* without message / content
Malformed(body) ==
    \/ ~body.parses
    \/ body.data.t # "dict"
    \/ HasChoices(body) /\ ~HasMessageContent(FirstChoice(body))

\* C4: for a transport failure, a timeout, a non-2xx response or a malformed
\* payload, generate returns exactly the connection-trouble string.
C4_FailureGivesFallback ==
    (g_pc = "returned"
     /\ \/ g_outcome[1].kind # "response"
        \/ ~Is2xx(g_outcome[1].status)
        \/ Malformed(g_outcome[1].body))
    => PyEq(g_returned[1], ConnectionTrouble)

\* C5: a chat invocation whose text is empty (or whose context is empty)
\* leaves the log, the invocations in flight, the requests sent and the
\* chunks as they were.
C5_EmptyUtteranceIgnored ==
    [][(calls' = calls + 1 /\ ~Truthy(last_call'.user_message))
       => /\ messages' = messages
          /\ pending' = pending
          /\ http_requests' = http_requests
          /\ chunks' = chunks]_vars

\* an empty utterance was delivered to a seeded, idle handler
C5_Witness ==
    /\ calls > 0
    /\ last_call.id = calls
    /\ ~Truthy(last_call.user_message)
    /\ pending = {}
    /\ Len(messages) = 1
    /\ http_requests = <<>>

\* C6: once the room has closed the log is never mutated again; the result
\* of a completion in flight at that moment is discarded.
C6_ClosedIsTerminal == [][closed => messages' = messages]_vars

\* C7: with the credential absent from the environment the pipeline is never
\* started, no greeting is said and no request goes out without a credential.
C7_MissingCredentialStopsStartup ==
    PyEq(env_api_key, PyNone)
    => /\ ~started
       /\ greetings = 0
       /\ \A i \in 1..Len(http_requests) :
            http_requests[i].authorization # <<"Bearer ">> \o Format(env_api_key)

\* a 2xx response whose first choice carries a message with a string content
WellFormedSuccess(o) ==
    /\ o.kind = "response"
    /\ Is2xx(o.status)
    /\ HasChoices(o.body)
    /\ HasMessageContent(FirstChoice(o.body))
    /\ FirstChoice(o.body).v["message"].v["content"].t = "str"

\* C8: for a 2xx, well-formed response with at least one choice, generate
\* returns the first choice's message content verbatim.
C8_FirstChoiceVerbatim ==
    (g_pc = "returned" /\ WellFormedSuccess(g_outcome[1]))
    => PyEq(g_returned[1], FirstChoice(g_outcome[1].body).v["message"].v["content"])

\* generate answered a response with two different choices
C8_Witness ==
    /\ g_pc = "returned"
    /\ WellFormedSuccess(g_outcome[1])
    /\ Len(g_outcome[1].body.data.v["choices"].v) >= 2
    /\ g_outcome[1].body.data.v["choices"].v[2] = GoodChoice(<<"Salut">>)
    /\ PyEq(g_returned[1], PyStr(<<"Bonjour">>))

\* a 2xx response whose body is an object with no choices: the key absent,
\* null, or an empty list
ZeroChoices(o) ==
    /\ o.kind = "response"
    /\ Is2xx(o.status)
    /\ o.body.parses
    /\ o.body.data.t = "dict"
    /\ \/ "choices" \notin DOMAIN o.body.data.v
       \/ o.body.data.v["choices"].t = "None"
       \/ o.body.data.v["choices"].t = "list" /\ Len(o.body.data.v["choices"].v) = 0

\* C9: for a 2xx response with zero choices generate returns the apology
\* string, not the connection-trouble string.
C9_ZeroChoicesGivesApology ==
    (g_pc = "returned" /\ ZeroChoices(g_outcome[1]))
    => /\ PyEq(g_returned[1], Apology)
       /\ ~PyEq(g_returned[1], ConnectionTrouble)

\* generate answered a 2xx response with an empty list of choices
C9_Witness ==
    /\ g_pc = "returned"
    /\ g_outcome[1].kind = "response"
    /\ g_outcome[1].status = 200
    /\ g_outcome[1].body = [parses |-> TRUE, data |-> Dict1("choices", PyList(<<>>))]
    /\ PyEq(g_returned[1], Apology)

\* the clause the specification gives each level
ClauseOf(level) ==
    CASE PyEq(level, PyStr(<<"beginner">>)) -> BeginnerClause
      [] PyEq(level, PyStr(<<"intermediate">>)) -> IntermediateClause
      [] OTHER -> AdvancedClause

\* the text of the topic as the prompt shows it
TopicText(subject) == IF Truthy(subject) THEN Format(subject) ELSE <<>>

\* every call returned the same prompt, with the level's clause, and with
\* the topic clause exactly when the topic is non-empty
DeterministicWithClauses ==
    /\ \A i, j \in 1..Len(p_returned) : p_returned[i] = p_returned[j]
    /\ \A i \in 1..Len(p_returned) :
        /\ Contains(p_returned[i], ClauseOf(p_difficulty))
        /\ Contains(p_returned[i], TopicLabel \o TopicText(p_topic))
           <=> Truthy(p_topic)

\* C10 as stated: for each of the three levels and every topic, the prompt
\* is the same on every call, contains the level's clause and no other
\* level's clause, and the topic clause iff the topic is non-empty.
C10_PromptClausesAsStated ==
    p_difficulty \in Levels
    => /\ DeterministicWithClauses
       /\ \A i \in 1..Len(p_returned) :
            \A other \in Levels \ {p_difficulty} :
                ~Contains(p_returned[i], ClauseOf(other))

\* C10 amended: ... and contains no other level's clause outside the topic
\* text it ends with.
C10_PromptClauses ==
    p_difficulty \in Levels
    => /\ DeterministicWithClauses
       /\ \A i \in 1..Len(p_returned) :
            \A other \in Levels \ {p_difficulty} :
                ~Contains(SubSeq(p_returned[i], 1,
                                 Len(p_returned[i]) - Len(TopicText(p_topic))),
                          ClauseOf(other))

\* the prompt was built twice for a beginner whose topic quotes a clause
C10_Witness ==
    /\ Len(p_returned) >= 2
    /\ PyEq(p_difficulty, PyStr(<<"beginner">>))
    /\ p_topic = PyStr(<<"travel", AdvancedClause[1]>>)
    /\ Contains(p_returned[2], TopicLabel \o p_topic.v)

\* the advanced clause and no other, outside the topic text
OnlyAdvancedClause(prompt, subject) ==
    LET head == SubSeq(prompt, 1, Len(prompt) - Len(TopicText(subject))) IN
    /\ Contains(head, AdvancedClause)
    /\ ~Contains(head, BeginnerClause)
    /\ ~Contains(head, IntermediateClause)

\* C11: for a difficulty that is none of beginner, intermediate, advanced
\* (an unknown string, a differently cased one, null), the prompt carries
\* the advanced clause.
C11_UnknownDifficultyIsAdvanced ==
    p_difficulty \notin Levels
    => \A i \in 1..Len(p_returned) : OnlyAdvancedClause(p_returned[i], p_topic)

\* the prompt was built for a null difficulty and no topic
C11_Witness ==
    /\ Len(p_returned) >= 1
    /\ PyEq(p_difficulty, PyNone)
    /\ PyEq(p_topic, PyNone)
    /\ Contains(p_returned[1], AdvancedClause)

\* metadata that is absent, empty, not valid JSON, or JSON that is no object
MalformedMetadata(metadata) ==
    \/ metadata.t = "None"
    \/ metadata.t = "str" /\ metadata.v = <<>>
    \/ metadata.t = "str" /\ metadata.v # <<>>
       /\ json_loads(metadata.v).t # "dict"

\* the participant has been waited for
MetadataRead == pc \notin {"idle", "start", "connected"}

\* the steps of entrypoint
SetupStep ==
    \/ Connect
    \/ WaitForParticipant
    \/ InitCerebras
    \/ CreateAssistant
    \/ OverrideHandler
    \/ StartAssistant
    \/ SayGreeting

\* C12: with malformed metadata of the first participant entrypoint does not
\* fail, difficulty stays beginner and topic stays None, the next setup step
\* can be taken, and the log is seeded with the beginner prompt.
C12_MalformedMetadataDefaults ==
    (MetadataRead /\ MalformedMetadata(participant_metadata))
    => /\ pc # "crashed"
       /\ PyEq(difficulty, PyStr(<<"beginner">>))
       /\ PyEq(topic, PyNone)
       /\ pc # "ready" => ENABLED SetupStep
       /\ Len(messages) > 0
          => messages[1] = Message("system",
                 PyStr(BaseInstruction \o Blank \o BeginnerClause))

\* the pipeline was started for a participant whose metadata is a JSON list
C12_Witness ==
    /\ pc = "ready"
    /\ participant_metadata = PyStr(<<"[]">>)
    /\ started
    /\ Len(messages) > 0
    /\ PyEq(difficulty, PyStr(<<"beginner">>))

\* the log ends with an assistant message carrying a text generate returns
\* (the provider's answer, the apology or the connection-trouble string)
LastIsAnswer ==
    /\ Len(messages) > 1
    /\ messages[Len(messages)].role = "assistant"
    /\ messages[Len(messages)].content \in GenerateReturns

\* C13: an accepted utterance completes with an assistant message carrying
\* the answer or the fallback string: once the suspended invocations have
\* been resumed (which SpecLive's fairness brings about) and the handler is
\* back in Seeded, the log ends with such a message.
C13_CompletedTurnHasAnswer ==
    (pending = {} /\ Len(chunks) > 0) => LastIsAnswer

\* C14: each handled non-empty utterance has caused exactly one completion
\* request, and a request carries the log as it was at the call: a prefix
\* of the log that ends with the utterance's user message.
C14_OneRequestPerUtterance ==
    /\ Len(chunks) <= Len(http_requests)
    /\ Len(http_requests) <= Len(chunks) + Cardinality(pending)
    /\ \A i \in 1..Len(http_requests) :
        LET h == http_requests[i].messages IN
        /\ Len(h) > 1
        /\ Len(h) <= Len(messages)
        /\ h = SubSeq(messages, 1, Len(h))
        /\ h[Len(h)].role = "user"

\* the user messages of the log
UserCount(log) == Cardinality({i \in 1..Len(log) : log[i].role = "user"})

\* one chunk for each utterance that was accepted and has returned, none for
\* an invocation still suspended, none twice
ChunkPerInvocation ==
    /\ \A i, j \in 1..Len(chunks) : chunks[i].id = chunks[j].id => i = j
    /\ \A i \in 1..Len(chunks) : \A inv \in pending : chunks[i].id # inv.id
    /\ UserCount(messages) = Len(chunks) + Cardinality(pending)

\* a step that delivers a chunk delivers one, for one suspended invocation,
\* with role assistant and the content of the assistant message the same
\* step appends to the log
ChunkStep ==
    chunks' # chunks
    => \E inv \in pending :
        /\ pending' = pending \ {inv}
        /\ Len(chunks') = Len(chunks) + 1
        /\ SubSeq(chunks', 1, Len(chunks)) = chunks
        /\ chunks'[Len(chunks')].id = inv.id
        /\ chunks'[Len(chunks')].role = "assistant"
        /\ messages' = Append(messages,
               Message("assistant", chunks'[Len(chunks')].content))

Rank(at) ==
    CASE at = "start" -> 0
      [] at = "connected" -> 1
      [] at = "joined" -> 2
      [] at = "llm" -> 3
      [] at = "assistant" -> 4
      [] at = "overridden" -> 5
      [] at = "started" -> 6
      [] at = "ready" -> 7
      [] OTHER -> -1

\* what each setup step leaves behind is there exactly when the step and
\* all steps before it have been taken; an utterance is handled only by the
\* substituted handler, on a seeded log
SetupInOrder ==
    /\ Rank(pc) >= 0
    /\ Rank(pc) < 2 => PyEq(participant_metadata, PyNone)
    /\ (initial_ctx # <<>>) <=> Rank(pc) >= 4
    /\ (Len(messages) > 0) <=> Rank(pc) >= 5
    /\ (assistant_llm = "CerebrasHandler") <=> Rank(pc) >= 5
    /\ started <=> Rank(pc) >= 6
    /\ greetings = (IF Rank(pc) >= 7 THEN 1 ELSE 0)
    /\ calls > 0
       => /\ started
          /\ assistant_llm = "CerebrasHandler"
          /\ messages[1] = initial_ctx[1]
          /\ messages[1].role = "system"

\* a step takes at most the next setup step, and never reseeds the log
SetupOnce ==
    /\ Rank(pc') \in {Rank(pc), Rank(pc) + 1}
    /\ Len(messages) > 0 => messages'[1] = messages[1]
    /\ greetings' >= greetings

\* C16: the setup steps happen at most once and in the order connect, read
\* metadata, seed the prompt, substitute the handler, start the pipeline,
\* greet once; no utterance meets the default LLM or an unseeded log.
C16_SetupOnceInOrder == []SetupInOrder /\ [][SetupOnce]_vars

\* setup is complete and an utterance has been handled
C16_Witness ==
    /\ pc = "ready"
    /\ greetings = 1
    /\ Len(chunks) > 0
    /\ assistant_llm = "CerebrasHandler"

\* C17: every user message of the log carries the text of a participant
\* utterance; the content of a context's last message is not taken as one
\* when that message is a system or an assistant message.
C17_UserMessagesAreUtterances ==
    \A i \in 1..Len(messages) :
        messages[i].role = "user"
        => \E u \in Utterances : PyEq(messages[i].content, PyStr(u))

====
